---- MODULE Spec2Model ----
(***************************************************************************)
(* Model of the request pipeline of nest-init-kit:                         *)
(*   RequestLoggingMiddleware.use -> JwtAuthGuard.canActivate              *)
(*   -> RequestLoggingInterceptor.intercept -> controller handler          *)
(*   -> AllExceptionsFilter.catch,                                         *)
(* with the client registry (AllowedClientRepository) and the request log  *)
(* recorder (RequestLogService + CsvLoggerService) as shared state.        *)
(* Requests are served one after the other; every await of the guard is a  *)
(* separate step.                                                          *)
(***************************************************************************)
EXTENDS Integers, Sequences, FiniteSets, TLC

VARIABLES
    pc,            \* position of the request in the pipeline
    reqNo,         \* number of requests that have arrived so far
    now,           \* wall clock (Date.now())
    req,           \* the inbound request: route, x-client-uuid header, bearer token
    requestId,     \* request.requestId (0 = not set)
    hdrRequestId,  \* X-Request-ID response header (0 = not set)
    user,          \* request.user
    handled,       \* request.wasHandledByInterceptor
    exc,           \* the exception travelling to the exception filter
    calls,         \* validators invoked for this request, in order
    regQueries,    \* registry look-ups made for this request
    regWrites,     \* lastSeenAt writes made for this request
    registry,      \* AllowedClientEntity rows by clientUuid
    requestLogs,   \* RequestLogService.requestLogs (Map, in insertion order)
    csvSuccess,    \* rows of logs/success/*.csv (request ids)
    csvError,      \* rows of logs/errors/*.csv (request ids)
    logCalls,      \* logRequest invocations for this request
    updateCalls,   \* updateRequestLog invocations for this request, by caller
    resp,          \* the response sent to the client
    issued,        \* access tokens issued by the refresh handler for this request
    handedRole,    \* the role the guard handed to the role validator
    ctxRequestId,  \* the request id the interceptor captured when it started
    rv,            \* role-validator harness: policy, caller role and verdict
    svc            \* direct calls of RequestLogService: the last call and what was inserted

vars == <<pc, reqNo, now, req, requestId, hdrRequestId, user, handled, exc, calls,
          regQueries, regWrites, registry, requestLogs, csvSuccess, csvError,
          logCalls, updateCalls, resp, issued, handedRole, ctxRequestId, rv, svc>>

----------------------------------------------------------------------------
(* Bounds *)

MaxRequests == 1
MaxStoredLogs == 2   \* maxStoredLogs (5000 in the source), scaled down
MaxDefects == 1      \* how many of the checked properties of a token may be wrong at once
MaxUpdates == 2      \* direct updateRequestLog calls made on the service

\* direct logRequest calls made on the service: enough to overflow the index twice
MaxInserts == MaxStoredLogs + 2
MaxLogins == 2       \* AuthService.login calls made one after the other
MaxConcurrent == 2   \* requests in flight at the same time

----------------------------------------------------------------------------
(* Values *)

Undefined == "undefined"

\* the Role enum of the repository
Roles == {"user", "admin", "superadmin"}

TokenTypes == {"access", "refresh"}

\* Access policies of a route (route metadata set by the decorators)
Policies == {"Public", "AuthenticatedOnly", "RequireRole", "RequireAdmin", "RequireSuperAdmin"}

\* x-client-uuid header values: absent, blank, and three identifiers
NoHeader == "<absent>"
ClientHeaders == {NoHeader, "  ", "c-active", "c-inactive", "c-unknown"}

\* String.prototype.trim over the header values of the model
trim(s) == IF s = "  " THEN "" ELSE s

\* The route table: controllers of the repository plus the decorator examples
\* documented on the guard, and a route registered on a path of the filter's
\* noise list.  matched = FALSE: no route matches the URL.
Routes ==
    { [path |-> "/auth/public",       matched |-> TRUE,  policy |-> "Public",            roles |-> {},                               refresh |-> FALSE],
      [path |-> "/auth/test",         matched |-> TRUE,  policy |-> "Public",            roles |-> {},                               refresh |-> FALSE],
      [path |-> "/auth/profile",      matched |-> TRUE,  policy |-> "AuthenticatedOnly", roles |-> {},                               refresh |-> FALSE],
      [path |-> "/auth/refresh",      matched |-> TRUE,  policy |-> "AuthenticatedOnly", roles |-> {},                               refresh |-> TRUE],
      [path |-> "/admin/users",       matched |-> TRUE,  policy |-> "RequireAdmin",      roles |-> {},                               refresh |-> FALSE],
      [path |-> "/admin/delete-all",  matched |-> TRUE,  policy |-> "RequireSuperAdmin", roles |-> {},                               refresh |-> FALSE],
      [path |-> "/moderate/posts",    matched |-> TRUE,  policy |-> "RequireRole",       roles |-> {"moderator"},                    refresh |-> FALSE],
      [path |-> "/content/create",    matched |-> TRUE,  policy |-> "RequireRole",       roles |-> {"admin", "moderator", "editor"}, refresh |-> FALSE],
      [path |-> "/does-not-exist",    matched |-> FALSE, policy |-> "AuthenticatedOnly", roles |-> {},                               refresh |-> FALSE],
      [path |-> "/favicon.ico",       matched |-> FALSE, policy |-> "AuthenticatedOnly", roles |-> {},                               refresh |-> FALSE],
      [path |-> "/favicon.ico?v=2",   matched |-> FALSE, policy |-> "AuthenticatedOnly", roles |-> {},                               refresh |-> FALSE],
      [path |-> "/robots.txt",        matched |-> TRUE,  policy |-> "AuthenticatedOnly", roles |-> {},                               refresh |-> FALSE] }

\* Bearer tokens: none, or a token described by what verification looks at
NoToken == [present |-> FALSE, sigOk |-> FALSE, expired |-> FALSE, issOk |-> FALSE,
            audOk |-> FALSE, subEmail |-> FALSE, role |-> Undefined, tokenType |-> Undefined]

AllTokens ==
    [present : {TRUE}, sigOk : BOOLEAN, expired : BOOLEAN, issOk : BOOLEAN,
     audOk : BOOLEAN, subEmail : BOOLEAN, role : Roles, tokenType : TokenTypes]

B2N(b) == IF b THEN 1 ELSE 0

Defects(t) == B2N(~t.sigOk) + B2N(t.expired) + B2N(~t.issOk) + B2N(~t.audOk) + B2N(~t.subEmail)

Tokens == {NoToken} \cup {t \in AllTokens : Defects(t) <= MaxDefects}

NoUser == [id |-> Undefined, email |-> Undefined, role |-> Undefined, tokenType |-> Undefined,
           clientUuid |-> Undefined, clientType |-> Undefined]

\* stack: the exception's response object has a stack property
NoExc == [kind |-> "none", status |-> 0, code |-> "", msg |-> "", stack |-> FALSE]

\* a request body: none, or an object with top-level fields
NoBody == [present |-> FALSE, fields |-> << >>]

\* an original (truthy) header or field value, and the redaction marker
Original == "original"

Redacted == "[REDACTED]"

\* header names and body fields a request may carry besides the ones the guard reads
HeaderNames == {"authorization", "cookie", "token", "user-agent"}

BodyFields == {"password", "token", "secret", "authorization"}

HeaderMaps == {[k \in K |-> Original] : K \in SUBSET HeaderNames}

Bodies == {NoBody} \cup {[present |-> TRUE, fields |-> [k \in K |-> Original]] : K \in SUBSET BodyFields}

\* request.headers of a request with the given x-client-uuid header and bearer token
RequestHeaders(clientHdr, token) ==
    [k \in (IF clientHdr = NoHeader THEN {} ELSE {"x-client-uuid"})
            \cup (IF token.present THEN {"authorization"} ELSE {}) |->
        IF k = "authorization" THEN Original ELSE clientHdr]

\* stack: the body's error field holds a stack trace; prod: NODE_ENV was
\* production when the filter built the body
NoResp == [sent |-> FALSE, status |-> 0, error |-> "", requestId |-> 0, found |-> FALSE,
           stack |-> FALSE, prod |-> FALSE,
           data |-> [headers |-> << >>, body |-> NoBody]]

\* xRequestId: the x-request-id header sent by the client (0 = none)
NoReq == [route |-> CHOOSE r \in Routes : r.path = "/auth/public", clientHdr |-> NoHeader, token |-> NoToken,
          headers |-> << >>, body |-> NoBody, xRequestId |-> 0]

\* an x-request-id header value chosen by a client
ClientRequestId == 77

\* randomUUID() in the filter: an id no other stage has handed out
FilterUuidBase == 200

NoRv == [done |-> FALSE, policy |-> "AuthenticatedOnly", roles |-> {}, userRole |-> "",
         verdict |-> [ok |-> TRUE, status |-> 200, code |-> "", required |-> {}, userRole |-> ""],
         superVerdict |-> [ok |-> TRUE, status |-> 200, code |-> "", required |-> {}, userRole |-> ""]]

\* request.url: a path and, for GET /monitoring/search/:requestId, the id in it
Url(path, param) == [path |-> path, param |-> param]

\* the answer of searchRequestById
NoSearch == [found |-> FALSE, source |-> "none", type |-> "none"]

NoSvc == [op |-> "none", id |-> 0, found |-> FALSE, inserted |-> << >>, updates |-> 0,
          prevLogs |-> << >>, prevSuccess |-> << >>, prevError |-> << >>, faulty |-> FALSE,
          search |-> NoSearch]

HttpException(status, code) ==
    [kind |-> "http", status |-> status, code |-> code, msg |-> code, stack |-> FALSE]

----------------------------------------------------------------------------
(* RoleValidatorService *)

Pass(userRole) == [ok |-> TRUE, status |-> 200, code |-> "", required |-> {}, userRole |-> userRole]

Forbidden(code, required, userRole) ==
    [ok |-> FALSE, status |-> 403, code |-> code, required |-> required, userRole |-> userRole]

isSuperAdminRoute(route) == route.policy = "RequireSuperAdmin"

isAdminRoute(route) == route.policy = "RequireAdmin"

\* the ROLES_KEY metadata, {} standing for both null and the empty array
getRequiredRoles(route) == IF route.policy = "RequireRole" THEN route.roles ELSE {}

\* a variant that asks for the admin role instead
validateSuperAdminAccess_WrongRole(userRole) ==
    IF userRole # "admin"
    THEN Forbidden("SUPERADMIN_ACCESS_REQUIRED", {"superadmin"}, userRole)
    ELSE Pass(userRole)

validateSuperAdminAccess(userRole) ==
    IF userRole # "superadmin"
    THEN Forbidden("SUPERADMIN_ACCESS_REQUIRED", {"superadmin"}, userRole)
    ELSE Pass(userRole)

\* a variant that lets only the admin role in
validateAdminAccess_AdminOnly(userRole) ==
    IF userRole # "admin"
    THEN Forbidden("ADMIN_ACCESS_REQUIRED", {"admin", "superadmin"}, userRole)
    ELSE Pass(userRole)

validateAdminAccess(userRole) ==
    LET allowedRoles == {"admin", "superadmin"}
    IN  IF userRole \notin allowedRoles
        THEN Forbidden("ADMIN_ACCESS_REQUIRED", allowedRoles, userRole)
        ELSE Pass(userRole)

validateDynamicRoleAccess(userRole, requiredRoles) ==
    IF userRole \notin requiredRoles
    THEN Forbidden("INSUFFICIENT_ROLE_PERMISSIONS", requiredRoles, userRole)
    ELSE Pass(userRole)

validateRolePermissions(route, userRole) ==
    IF isSuperAdminRoute(route) THEN validateSuperAdminAccess(userRole)
    ELSE IF isAdminRoute(route) THEN validateAdminAccess(userRole)
    ELSE IF getRequiredRoles(route) # {} THEN validateDynamicRoleAccess(userRole, getRequiredRoles(route))
    ELSE Pass(userRole)

----------------------------------------------------------------------------
(* ClientValidatorService *)

\* the header value is usable: present and not blank
hasClientUuid(hdr) == hdr # NoHeader /\ trim(hdr) # ""

extractClientUuid(hdr) == trim(hdr)

\* AllowedClientRepository.findByUuid
findByUuid(reg, clientUuid) == clientUuid \in DOMAIN reg

\* a variant that does not look at isActive
validateClientStatus_Always(client) == TRUE

validateClientStatus(client) == client.isActive

attachClientInfoToRequest(u, clientUuid, client) ==
    [u EXCEPT !.clientUuid = clientUuid, !.clientType = client.clientType]

----------------------------------------------------------------------------
(* JwtStrategy (passport-jwt) *)

\* a variant with expiry checking switched off
StrategyOptions_IgnoreExpiration ==
    [ignoreExpiration |-> TRUE, issuer |-> Undefined, audience |-> Undefined]

\* options handed to the passport-jwt Strategy by the JwtStrategy constructor;
\* issuer and audience are not among them
StrategyOptions == [ignoreExpiration |-> FALSE, issuer |-> Undefined, audience |-> Undefined]

\* verification of the bearer token under the strategy's options
JwtVerify(t, opts) ==
    /\ t.present
    /\ t.sigOk
    /\ (opts.ignoreExpiration \/ ~t.expired)
    /\ (opts.issuer = Undefined \/ t.issOk)
    /\ (opts.audience = Undefined \/ t.audOk)

\* JwtStrategy.validate: throws on a payload without sub or email
validateOk(t) == t.subEmail

\* JwtStrategy.validate: the object that becomes request.user
validate(t) == [NoUser EXCEPT !.id = "sub", !.email = "email"]

\* the handler of POST /auth/refresh looks at req.user.tokenType
refreshAccepts(u) == u.tokenType = "refresh"

\* AuthService.refreshTokens: one new access token is issued
refreshTokens(n) == n + 1

----------------------------------------------------------------------------
(* AllExceptionsFilter helpers *)

ignoredPaths == {"/favicon.ico", "/.well-known/appspecific/com.chrome.devtools.json",
                 "/apple-touch-icon.png", "/robots.txt"}

\* a variant that does not look at the status
shouldIgnorePath_AnyStatus(path, status) == path \in ignoredPaths

shouldIgnorePath(path, status) ==
    IF status # 404 THEN FALSE ELSE path \in ignoredPaths

\* messages of raw Errors a handler may throw
ErrorMessages == {"Duplicate entry 'a' for key", "violates UNIQUE constraint",
                  "violates foreign key constraint", "FOREIGN KEY constraint failed",
                  "violates foreign key constraint fk_unique_client", "boom", ""}

\* String.prototype.toLowerCase over the messages of the model
toLowerCase(msg) ==
    CASE msg = "Duplicate entry 'a' for key"   -> "duplicate entry 'a' for key"
      [] msg = "violates UNIQUE constraint"    -> "violates unique constraint"
      [] msg = "FOREIGN KEY constraint failed" -> "foreign key constraint failed"
      [] OTHER                                 -> msg

\* String.prototype.includes (case-sensitive), over the strings of the model
includes(msg, needle) ==
    \/ needle = "duplicate"   /\ msg = "duplicate entry 'a' for key"
    \/ needle = "unique"      /\ msg \in {"violates unique constraint",
                                          "violates foreign key constraint fk_unique_client"}
    \/ needle = "foreign key" /\ msg \in {"violates foreign key constraint",
                                          "foreign key constraint failed",
                                          "violates foreign key constraint fk_unique_client"}

\* a variant that looks for the foreign-key signature only
handleCommonError_ForeignKeyOnly(e, isProd) ==
    IF includes(toLowerCase(e.msg), "foreign key")
    THEN HttpException(400, "Invalid relation")
    ELSE IF isProd THEN HttpException(500, "Internal server error")
    ELSE [HttpException(500, e.msg) EXCEPT !.stack = TRUE]

handleCommonError(e, isProd) ==
    LET message == toLowerCase(e.msg)
    IN  IF includes(message, "duplicate") \/ includes(message, "unique")
        THEN HttpException(409, "Duplicate record")
        ELSE IF includes(message, "foreign key")
        THEN HttpException(400, "Invalid relation")
        ELSE IF isProd THEN HttpException(500, "Internal server error")
        ELSE [HttpException(500, e.msg) EXCEPT !.stack = TRUE]

processException(e, isProd) ==
    IF e.kind = "http" THEN e
    ELSE IF e.kind = "string" THEN HttpException(500, e.msg)
    ELSE IF e.kind = "error" THEN handleCommonError(e, isProd)
    ELSE HttpException(503, "Unexpected error")

\* a variant that always generates a new id
resolveRequestId_AlwaysFresh(reqId, xRequestId, uuid) == uuid

\* request.requestId || request.headers['x-request-id'] || randomUUID()
resolveRequestId(reqId, xRequestId, uuid) ==
    IF reqId # 0 THEN reqId
    ELSE IF xRequestId # 0 THEN xRequestId
    ELSE uuid

\* the exception's response object as a whole, when it has no message to show
WholeResponse == "{message, stack}"

\* exceptionResponse.message || exceptionResponse: the error field of the body
errorMessage(finalException) ==
    IF finalException.code # "" THEN finalException.code ELSE WholeResponse

\* the error field of the body holds the stack property of the response object
bodyHasStack(finalException) ==
    errorMessage(finalException) = WholeResponse /\ finalException.stack

\* a variant that forgets the wasHandledByInterceptor flag
fallbackNeeded_IgnoresFlag(wasHandledByInterceptor, shouldLogError) == shouldLogError

\* the filter records the request itself only if the interceptor did not
fallbackNeeded(wasHandledByInterceptor, shouldLogError) ==
    ~wasHandledByInterceptor /\ shouldLogError

\* what a handler may throw
HandlerThrows ==
    { HttpException(400, "Bad Request"), HttpException(404, "Not Found") }
    \cup { [kind |-> "error", status |-> 0, code |-> "", msg |-> m, stack |-> FALSE] : m \in ErrorMessages }
    \cup { [kind |-> "string", status |-> 0, code |-> "", msg |-> "oops", stack |-> FALSE],
           [kind |-> "object", status |-> 0, code |-> "", msg |-> "{}", stack |-> FALSE] }

\* the interceptor's catchError: error.status || error.statusCode || 500
interceptorStatus(e) == IF e.kind = "http" THEN e.status ELSE 500

----------------------------------------------------------------------------
(* Sanitizers of the interceptor and of the exception filter, LOGGING_CONFIG *)

SAVE_SUCCESS_REQUEST_BODY == TRUE

SAVE_ERROR_REQUEST_BODY == TRUE

\* RequestLoggingInterceptor.sanitizeHeaders
sensitiveHeaders == {"authorization", "cookie", "x-api-key", "x-auth-token"}

sanitizeHeaders(headers) ==
    [k \in DOMAIN headers |->
        IF k \in sensitiveHeaders /\ headers[k] # "" THEN Redacted ELSE headers[k]]

\* RequestLoggingInterceptor.sanitizeBody: top-level fields only
sensitiveFields == {"password", "token", "secret", "key", "auth"}

sanitizeBody(body) ==
    IF ~body.present THEN body
    ELSE [body EXCEPT !.fields =
             [k \in DOMAIN body.fields |->
                 IF k \in sensitiveFields /\ body.fields[k] # "" THEN Redacted ELSE body.fields[k]]]

\* AllExceptionsFilter.sanitizeHeaders / sanitizeBody: the filter's own copies
filterSensitiveHeaders == {"authorization", "cookie", "x-api-key", "x-auth-token"}

filterSanitizeHeaders(headers) ==
    [k \in DOMAIN headers |->
        IF k \in filterSensitiveHeaders /\ headers[k] # "" THEN Redacted ELSE headers[k]]

filterSensitiveFields == {"password", "token", "secret", "key", "auth"}

filterSanitizeBody(body) ==
    IF ~body.present THEN body
    ELSE [body EXCEPT !.fields =
             [k \in DOMAIN body.fields |->
                 IF k \in filterSensitiveFields /\ body.fields[k] # "" THEN Redacted
                 ELSE body.fields[k]]]

----------------------------------------------------------------------------
(* RequestLogService *)

RECURSIVE IndexOf(_, _, _)
IndexOf(logs, id, i) ==
    IF i > Len(logs) THEN 0
    ELSE IF logs[i].id = id THEN i
    ELSE IndexOf(logs, id, i + 1)

\* Map.get
MapGet(logs, id) == IndexOf(logs, id, 1)

\* Map.set: an existing key keeps its place, a new key goes last
MapSet(logs, e) ==
    LET i == MapGet(logs, e.id)
    IN  IF i = 0 THEN Append(logs, e) ELSE [logs EXCEPT ![i] = e]

\* insert e behind every element that is at least as recent (stable, newest first)
RECURSIVE InsertDesc(_, _)
InsertDesc(sorted, e) ==
    IF sorted = << >> THEN <<e>>
    ELSE IF Head(sorted).timestamp >= e.timestamp
         THEN <<Head(sorted)>> \o InsertDesc(Tail(sorted), e)
         ELSE <<e>> \o sorted

RECURSIVE SortDesc(_, _)
SortDesc(logs, acc) ==
    IF logs = << >> THEN acc
    ELSE SortDesc(Tail(logs), InsertDesc(acc, Head(logs)))

\* a variant that keeps the entries stored first
cleanupOldLogs_KeepsFirst(logs) ==
    IF Len(logs) <= MaxStoredLogs THEN logs
    ELSE SubSeq(logs, 1, MaxStoredLogs)

cleanupOldLogs(logs) ==
    IF Len(logs) <= MaxStoredLogs THEN logs
    ELSE SubSeq(SortDesc(logs, << >>), 1, MaxStoredLogs)

\* RequestLogService.logRequest: the index after the call
logRequest(logs, data) ==
    LET stored == MapSet(logs, data)
    IN  IF Len(stored) > MaxStoredLogs THEN cleanupOldLogs(stored) ELSE stored

\* a variant that stores a new entry when there is none
updateRequestLog_Upsert(logs, id, update) ==
    LET i == MapGet(logs, id)
    IN  IF i = 0
        THEN Append(logs, [id |-> id, timestamp |-> 0, url |-> Url("/", 0),
                           success |-> update.success,
                           statusCode |-> update.statusCode, headers |-> << >>, body |-> NoBody])
        ELSE [logs EXCEPT ![i] = [@ EXCEPT !.success = update.success,
                                           !.statusCode = update.statusCode]]

\* RequestLogService.updateRequestLog: the index after the call
updateRequestLog(logs, id, update) ==
    LET i == MapGet(logs, id)
    IN  IF i = 0 THEN logs
        ELSE LET updated == [logs EXCEPT ![i] = [@ EXCEPT !.success = update.success,
                                                          !.statusCode = update.statusCode]]
             IN  IF Len(updated) * 10 > MaxStoredLogs * 11
                 THEN cleanupOldLogs(updated) ELSE updated

\* RequestLogService.updateRequestLog: the entry is found and goes on to the CSV logger
updateFound(logs, id) == MapGet(logs, id) # 0

\* RequestLogService.clearLogs: the index after the call
clearLogs(logs) == << >>

\* line.includes(requestId): request ids are UUIDs, so the text of a row
\* contains one where a column holds it, the requestId column or the url
\* column of a request to /monitoring/search/:requestId
lineIncludes(row, id) == row.id = id \/ row.url.param = id

\* CsvLoggerService.searchInDirectory: some line of the partition has the id
searchInDirectory(rows, id) ==
    \E i \in 1..Len(rows) : lineIncludes(rows[i], id)

\* CsvLoggerService.searchByRequestId: the success partition, then the error one
searchByRequestId(successRows, errorRows, id) ==
    IF searchInDirectory(successRows, id)
    THEN [found |-> TRUE, source |-> "csv", type |-> "success"]
    ELSE IF searchInDirectory(errorRows, id)
    THEN [found |-> TRUE, source |-> "csv", type |-> "error"]
    ELSE NoSearch

\* RequestLogService.searchRequestById: memory first, then the CSV files
searchRequestById(logs, successRows, errorRows, id) ==
    IF MapGet(logs, id) # 0
    THEN [found |-> TRUE, source |-> "memory",
          type |-> LET success == logs[MapGet(logs, id)].success
                   IN  IF success = "pending" THEN "undefined" ELSE success]
    ELSE searchByRequestId(successRows, errorRows, id)

----------------------------------------------------------------------------
(* Initial state: the process after start-up, with two registered clients *)

InitRegistry ==
    [c \in {"c-active", "c-inactive"} |->
        [isActive |-> (c = "c-active"), clientType |-> "mobile_app", lastSeenAt |-> 0]]

Init ==
    /\ pc = "idle"
    /\ reqNo = 0
    /\ now = 1
    /\ req = NoReq
    /\ requestId = 0
    /\ hdrRequestId = 0
    /\ user = NoUser
    /\ handled = FALSE
    /\ exc = NoExc
    /\ calls = << >>
    /\ regQueries = 0
    /\ regWrites = 0
    /\ registry = InitRegistry
    /\ requestLogs = << >>
    /\ csvSuccess = << >>
    /\ csvError = << >>
    /\ logCalls = 0
    /\ updateCalls = << >>
    /\ resp = NoResp
    /\ issued = 0
    /\ handedRole = Undefined
    /\ ctxRequestId = 0
    /\ rv = NoRv
    /\ svc = NoSvc

logVars == <<requestLogs, csvSuccess, csvError, logCalls, updateCalls>>

guardVars == <<user, calls, regQueries, regWrites, registry, handedRole>>

----------------------------------------------------------------------------
(* A request arrives *)

\* the per-request fields of a request that has not arrived yet
FreshRequest ==
    /\ requestId' = 0
    /\ hdrRequestId' = 0
    /\ user' = NoUser
    /\ handled' = FALSE
    /\ exc' = NoExc
    /\ calls' = << >>
    /\ regQueries' = 0
    /\ regWrites' = 0
    /\ logCalls' = 0
    /\ updateCalls' = << >>
    /\ resp' = NoResp
    /\ issued' = 0
    /\ handedRole' = Undefined
    /\ ctxRequestId' = 0

\* the server accepts the next request; the clock may have advanced
Arrive ==
    /\ pc = "idle"
    /\ reqNo < MaxRequests
    /\ reqNo' = reqNo + 1
    /\ \E d \in {0, 1} : now' = now + d
    /\ \E r \in Routes, h \in ClientHeaders, t \in Tokens :
          req' = [route |-> r, clientHdr |-> h, token |-> t,
                  headers |-> RequestHeaders(h, t), body |-> NoBody, xRequestId |-> 0]
    /\ FreshRequest
    /\ pc' = "middleware"
    /\ UNCHANGED <<registry, requestLogs, csvSuccess, csvError, rv, svc>>

\* the response has been sent and the request object is dropped; the registry,
\* the in-memory index and the CSV files stay
endRequest ==
    /\ pc = "done"
    /\ req' = NoReq
    /\ FreshRequest
    /\ pc' = "idle"
    /\ UNCHANGED <<reqNo, now, registry, requestLogs, csvSuccess, csvError, rv, svc>>

----------------------------------------------------------------------------
(* RequestLoggingMiddleware.use: tag the request, then next() into the router *)

use ==
    /\ pc = "middleware"
    /\ requestId' = reqNo
    /\ hdrRequestId' = reqNo
    /\ IF req.route.matched
       THEN pc' = "guard" /\ exc' = exc
       ELSE pc' = "filter" /\ exc' = HttpException(404, "Cannot GET")
    /\ UNCHANGED <<reqNo, now, req, handled, resp, issued, ctxRequestId, rv, svc>>
    /\ UNCHANGED guardVars
    /\ UNCHANGED logVars

----------------------------------------------------------------------------
(* JwtAuthGuard.canActivate *)

\* a variant that treats no route as public
isPublicRoute_Never(route) == FALSE

isPublicRoute(route) == route.policy = "Public"

\* a variant of canActivate that goes on to the token check after a missing header
canActivate_ContinuesAfterFailure ==
    /\ pc = "guard"
    /\ IF isPublicRoute(req.route)
       THEN /\ pc' = "interceptor"
            /\ UNCHANGED <<calls, exc>>
       ELSE /\ calls' = Append(calls, "client")
            /\ IF hasClientUuid(req.clientHdr)
               THEN pc' = "findClient" /\ exc' = exc
               ELSE pc' = "jwt" /\ exc' = HttpException(401, "MISSING_CLIENT_UUID_HEADER")
    /\ UNCHANGED <<reqNo, now, req, requestId, hdrRequestId, handled, resp, issued, ctxRequestId, rv, svc>>
    /\ UNCHANGED <<user, regQueries, regWrites, registry, handedRole>>
    /\ UNCHANGED logVars

\* canActivate up to the first await: public check, then extractClientUuid
canActivate ==
    /\ pc = "guard"
    /\ IF isPublicRoute(req.route)
       THEN /\ pc' = "interceptor"
            /\ UNCHANGED <<calls, exc>>
       ELSE /\ calls' = Append(calls, "client")
            /\ IF hasClientUuid(req.clientHdr)
               THEN pc' = "findClient" /\ exc' = exc
               ELSE pc' = "filter" /\ exc' = HttpException(401, "MISSING_CLIENT_UUID_HEADER")
    /\ UNCHANGED <<reqNo, now, req, requestId, hdrRequestId, handled, resp, issued, ctxRequestId, rv, svc>>
    /\ UNCHANGED <<user, regQueries, regWrites, registry, handedRole>>
    /\ UNCHANGED logVars

\* findAllowedClient resolves (or the query fails), then validateClientStatus
findAllowedClient ==
    /\ pc = "findClient"
    /\ regQueries' = regQueries + 1
    /\ \E dbOk \in BOOLEAN :
         LET clientUuid == extractClientUuid(req.clientHdr)
         IN  IF ~dbOk
             THEN pc' = "filter" /\ exc' = HttpException(401, "CLIENT_VALIDATION_ERROR")
             ELSE IF ~findByUuid(registry, clientUuid)
             THEN pc' = "filter" /\ exc' = HttpException(401, "CLIENT_UUID_NOT_FOUND")
             ELSE IF ~validateClientStatus(registry[clientUuid])
             THEN pc' = "filter" /\ exc' = HttpException(403, "CLIENT_INACTIVE")
             ELSE pc' = "updateLastSeen" /\ exc' = exc
    /\ UNCHANGED <<reqNo, now, req, requestId, hdrRequestId, handled, resp, issued, ctxRequestId, rv, svc>>
    /\ UNCHANGED <<user, calls, regWrites, registry, handedRole>>
    /\ UNCHANGED logVars

\* a variant in which a failed write is rethrown
updateClientLastSeen_FailureThrows ==
    /\ pc = "updateLastSeen"
    /\ LET clientUuid == extractClientUuid(req.clientHdr)
       IN  \E writeOk \in BOOLEAN :
              IF writeOk
              THEN /\ registry' = [registry EXCEPT ![clientUuid].lastSeenAt = now]
                   /\ regWrites' = regWrites + 1
                   /\ user' = attachClientInfoToRequest(user, clientUuid, registry[clientUuid])
                   /\ pc' = "jwt" /\ exc' = exc
              ELSE /\ UNCHANGED <<registry, regWrites, user>>
                   /\ pc' = "filter" /\ exc' = HttpException(500, "LAST_SEEN_UPDATE_FAILED")
    /\ UNCHANGED <<reqNo, now, req, requestId, hdrRequestId, handled, resp, issued, ctxRequestId, rv, svc>>
    /\ UNCHANGED <<calls, regQueries, handedRole>>
    /\ UNCHANGED logVars

\* the awaited updateClientLastSeen settles (a failed write is logged and
\* swallowed), then attachClientInfoToRequest
updateClientLastSeen ==
    /\ pc = "updateLastSeen"
    /\ LET clientUuid == extractClientUuid(req.clientHdr)
       IN  /\ \E writeOk \in BOOLEAN :
                IF writeOk
                THEN /\ registry' = [registry EXCEPT ![clientUuid].lastSeenAt = now]
                     /\ regWrites' = regWrites + 1
                ELSE UNCHANGED <<registry, regWrites>>
           /\ user' = attachClientInfoToRequest(user, clientUuid, registry[clientUuid])
    /\ pc' = "jwt"
    /\ UNCHANGED <<reqNo, now, req, requestId, hdrRequestId, handled, exc, resp, issued, ctxRequestId, rv, svc>>
    /\ UNCHANGED <<calls, regQueries, handedRole>>
    /\ UNCHANGED logVars

\* request.user?.role || ''
roleOf(u) == IF u.role = Undefined THEN "" ELSE u.role

\* validateJwtToken (passport's AuthGuard.canActivate puts the result of
\* JwtStrategy.validate into request.user), then the role check
validateJwtToken ==
    /\ pc = "jwt"
    /\ IF JwtVerify(req.token, StrategyOptions) /\ validateOk(req.token)
       THEN LET u == validate(req.token)
                verdict == validateRolePermissions(req.route, roleOf(u))
            IN  /\ user' = u
                /\ calls' = calls \o <<"token", "role">>
                /\ handedRole' = roleOf(u)
                /\ IF verdict.ok
                   THEN pc' = "interceptor" /\ exc' = exc
                   ELSE pc' = "filter" /\ exc' = HttpException(403, verdict.code)
       ELSE /\ calls' = Append(calls, "token")
            /\ pc' = "filter"
            /\ exc' = HttpException(401, "INVALID_JWT_TOKEN")
            /\ UNCHANGED <<user, handedRole>>
    /\ UNCHANGED <<reqNo, now, req, requestId, hdrRequestId, handled, resp, issued, ctxRequestId, rv, svc>>
    /\ UNCHANGED <<regQueries, regWrites, registry>>
    /\ UNCHANGED logVars

----------------------------------------------------------------------------
(* Recording a completed request: logRequest followed by updateRequestLog,  *)
(* as saveCompleteRequestLog and the filter's fallback do.  The CSV append  *)
(* may fail; CsvLoggerService catches the failure.                          *)

\* the RequestLogData built by saveCompleteRequestLog (caller "interceptor")
\* and by the filter's fallback (caller "filter")
NewEntry(id, success, caller) ==
    [id |-> id, timestamp |-> now, url |-> Url(req.route, 0),
     success |-> "pending", statusCode |-> 0,
     headers |-> IF caller = "interceptor" THEN sanitizeHeaders(req.headers)
                 ELSE filterSanitizeHeaders(req.headers),
     body |-> IF caller = "interceptor"
              THEN IF (IF success = "success" THEN SAVE_SUCCESS_REQUEST_BODY
                       ELSE SAVE_ERROR_REQUEST_BODY)
                   THEN sanitizeBody(req.body) ELSE NoBody
              ELSE IF SAVE_ERROR_REQUEST_BODY THEN filterSanitizeBody(req.body) ELSE NoBody]

\* the row handed to CsvLoggerService: logSuccess gets the request body,
\* logError the request headers and the request body
CsvRow(existingLog, update) ==
    [id |-> existingLog.id, url |-> existingLog.url, statusCode |-> update.statusCode,
     headers |-> IF update.success = "success" THEN << >> ELSE existingLog.headers,
     body |-> existingLog.body]

\* updateRequestLog on the index logs: the entry is completed and handed to
\* CsvLoggerService.logSuccess / logError, whose append may fail
updateRequestLogAndPersist(logs, id, update) ==
    /\ requestLogs' = updateRequestLog(logs, id, update)
    /\ \E csvOk \in BOOLEAN :
          IF updateFound(logs, id) /\ csvOk
          THEN LET row == CsvRow(logs[MapGet(logs, id)], update)
               IN  IF update.success = "success"
                   THEN csvSuccess' = Append(csvSuccess, row) /\ csvError' = csvError
                   ELSE csvError' = Append(csvError, row) /\ csvSuccess' = csvSuccess
          ELSE UNCHANGED <<csvSuccess, csvError>>

\* which call of the log service throws: none in the running system; with
\* a faulty service, logRequest or updateRequestLog may throw
ServiceFaults == IF svc.faulty THEN {"none", "logRequest", "updateRequestLog"} ELSE {"none"}

\* try { logRequest(...); updateRequestLog(...) } catch { logger.warn(...) }
RecordCompletion(id, success, statusCode, caller) ==
    LET created == logRequest(requestLogs, NewEntry(id, success, caller))
        update  == [success |-> success, statusCode |-> statusCode]
    IN  \E fault \in ServiceFaults :
          /\ logCalls' = logCalls + 1
          /\ CASE fault = "logRequest" ->
                    UNCHANGED <<updateCalls, requestLogs, csvSuccess, csvError>>
               [] fault = "updateRequestLog" ->
                    /\ updateCalls' = Append(updateCalls, caller)
                    /\ requestLogs' = created
                    /\ UNCHANGED <<csvSuccess, csvError>>
               [] OTHER ->
                    /\ updateCalls' = Append(updateCalls, caller)
                    /\ updateRequestLogAndPersist(created, id, update)

----------------------------------------------------------------------------
(* RequestLoggingInterceptor.intercept *)

\* the part before next.handle(): capture the id, generate a fallback if none
intercept ==
    /\ pc = "interceptor"
    /\ ctxRequestId' = requestId
    /\ IF requestId = 0
       THEN requestId' = reqNo /\ hdrRequestId' = reqNo
       ELSE UNCHANGED <<requestId, hdrRequestId>>
    /\ pc' = "handler"
    /\ UNCHANGED <<reqNo, now, req, handled, exc, resp, issued, rv, svc>>
    /\ UNCHANGED guardVars
    /\ UNCHANGED logVars

\* a variant in which a success that could not be written to the CSV log
\* is answered with 500
tap_LoggingFailureEscapes ==
    /\ pc = "handler"
    /\ req.route.refresh => refreshAccepts(user)
    /\ handled' = TRUE
    /\ RecordCompletion(ctxRequestId, "success", 200, "interceptor")
    /\ issued' = IF req.route.refresh THEN refreshTokens(issued) ELSE issued
    /\ resp' = [NoResp EXCEPT !.sent = TRUE,
                              !.status = IF csvSuccess' = csvSuccess THEN 500 ELSE 200,
                              !.requestId = requestId]
    /\ pc' = "done"
    /\ UNCHANGED <<reqNo, now, req, requestId, hdrRequestId, exc, ctxRequestId, rv, svc>>
    /\ UNCHANGED guardVars

\* the handler returns; tap() records the success and the response is sent
tap ==
    /\ pc = "handler"
    /\ req.route.refresh => refreshAccepts(user)
    /\ handled' = TRUE
    /\ RecordCompletion(ctxRequestId, "success", 200, "interceptor")
    /\ issued' = IF req.route.refresh THEN refreshTokens(issued) ELSE issued
    /\ resp' = [NoResp EXCEPT !.sent = TRUE, !.status = 200, !.requestId = requestId]
    /\ pc' = "done"
    /\ UNCHANGED <<reqNo, now, req, requestId, hdrRequestId, exc, ctxRequestId, rv, svc>>
    /\ UNCHANGED guardVars

\* what the handler of the route throws
Thrown(route, u) ==
    IF route.refresh
    THEN IF refreshAccepts(u) THEN {} ELSE {HttpException(401, "Invalid token type")}
    ELSE HandlerThrows

\* the handler throws; catchError() records the error and rethrows
catchError ==
    /\ pc = "handler"
    /\ \E e \in Thrown(req.route, user) :
          /\ exc' = e
          /\ RecordCompletion(ctxRequestId, "error", interceptorStatus(e), "interceptor")
    /\ handled' = TRUE
    /\ pc' = "filter"
    /\ UNCHANGED <<reqNo, now, req, requestId, hdrRequestId, resp, issued, ctxRequestId, rv, svc>>
    /\ UNCHANGED guardVars

----------------------------------------------------------------------------
(* AllExceptionsFilter.catch *)

AllExceptionsFilter_catch ==
    /\ pc = "filter"
    /\ \E isProd \in BOOLEAN :
         LET id             == resolveRequestId(requestId, req.xRequestId, FilterUuidBase + reqNo)
             finalException == processException(exc, isProd)
             status         == finalException.status
             shouldLogError == ~shouldIgnorePath(req.route.path, status)
         IN  /\ requestId' = IF requestId = 0 /\ req.xRequestId = 0 THEN id ELSE requestId
             /\ hdrRequestId' = id
             /\ IF fallbackNeeded(handled, shouldLogError)
                THEN RecordCompletion(id, "error", status, "filter")
                ELSE UNCHANGED logVars
             /\ resp' = [NoResp EXCEPT !.sent = TRUE, !.status = status,
                                        !.error = errorMessage(finalException),
                                        !.stack = bodyHasStack(finalException),
                                        !.prod = isProd, !.requestId = id]
    /\ pc' = "done"
    /\ UNCHANGED <<reqNo, now, req, handled, exc, issued, ctxRequestId, rv, svc>>
    /\ UNCHANGED guardVars

----------------------------------------------------------------------------
(* The pipeline *)

Next ==
    \/ Arrive
    \/ endRequest
    \/ use
    \/ canActivate
    \/ findAllowedClient
    \/ updateClientLastSeen
    \/ validateJwtToken
    \/ intercept
    \/ tap
    \/ catchError
    \/ AllExceptionsFilter_catch

Spec == Init /\ [][Next]_vars

\* The pipeline with its scheduling: every step of the process itself is
\* eventually taken; the registry is a remote database, and nothing makes the
\* lastSeenAt write that updateClientLastSeen awaits ever settle
SpecLive ==
    /\ Init /\ [][Next]_vars
    /\ WF_vars(use)
    /\ WF_vars(canActivate)
    /\ WF_vars(findAllowedClient)
    /\ WF_vars(validateJwtToken)
    /\ WF_vars(intercept)
    /\ WF_vars(tap \/ catchError)
    /\ WF_vars(AllExceptionsFilter_catch)

----------------------------------------------------------------------------
(* The pipeline with a log service whose calls may throw *)

InitFaulty ==
    /\ pc = "idle"
    /\ reqNo = 0
    /\ now = 1
    /\ req = NoReq
    /\ requestId = 0
    /\ hdrRequestId = 0
    /\ user = NoUser
    /\ handled = FALSE
    /\ exc = NoExc
    /\ calls = << >>
    /\ regQueries = 0
    /\ regWrites = 0
    /\ registry = InitRegistry
    /\ requestLogs = << >>
    /\ csvSuccess = << >>
    /\ csvError = << >>
    /\ logCalls = 0
    /\ updateCalls = << >>
    /\ resp = NoResp
    /\ issued = 0
    /\ handedRole = Undefined
    /\ ctxRequestId = 0
    /\ rv = NoRv
    /\ svc = [NoSvc EXCEPT !.faulty = TRUE]

SpecFaulty == InitFaulty /\ [][Next]_vars

----------------------------------------------------------------------------
(* RoleValidatorService.validateRolePermissions on its own: every policy,   *)
(* every required-role set and every caller role; the same route is checked *)
(* for the caller and for a superadmin caller                               *)

RoleNames == Roles \cup {"moderator", "editor"}

CallerRoles == RoleNames \cup {""}

RolePolicies == Policies \ {"Public"}

InitRole ==
    /\ pc = "role"
    /\ reqNo = 0
    /\ now = 1
    /\ req = NoReq
    /\ requestId = 0
    /\ hdrRequestId = 0
    /\ user = NoUser
    /\ handled = FALSE
    /\ exc = NoExc
    /\ calls = << >>
    /\ regQueries = 0
    /\ regWrites = 0
    /\ registry = InitRegistry
    /\ requestLogs = << >>
    /\ csvSuccess = << >>
    /\ csvError = << >>
    /\ logCalls = 0
    /\ updateCalls = << >>
    /\ resp = NoResp
    /\ issued = 0
    /\ handedRole = Undefined
    /\ ctxRequestId = 0
    /\ \E p \in RolePolicies, rs \in SUBSET RoleNames, r \in CallerRoles :
          /\ (p # "RequireRole") => rs = {}
          /\ rv = [NoRv EXCEPT !.policy = p, !.roles = rs, !.userRole = r]
    /\ svc = NoSvc

RoleCheck ==
    /\ pc = "role"
    /\ ~rv.done
    /\ rv' = [rv EXCEPT !.done = TRUE,
                        !.verdict = validateRolePermissions([policy |-> rv.policy, roles |-> rv.roles],
                                                            rv.userRole),
                        !.superVerdict = validateRolePermissions([policy |-> rv.policy, roles |-> rv.roles],
                                                                 "superadmin")]
    /\ UNCHANGED <<pc, reqNo, now, req, requestId, hdrRequestId, user, handled, exc, calls,
                   regQueries, regWrites, registry, requestLogs, csvSuccess, csvError,
                   logCalls, updateCalls, resp, issued, handedRole, ctxRequestId, svc>>

NextRole == RoleCheck

SpecRole == InitRole /\ [][NextRole]_vars

----------------------------------------------------------------------------
(* RequestLogService called directly, starting from an empty index:         *)
(* logRequest with a new request id each time, updateRequestLog with any id *)

InitLog ==
    /\ pc = "service"
    /\ reqNo = 0
    /\ now = 1
    /\ req = NoReq
    /\ requestId = 0
    /\ hdrRequestId = 0
    /\ user = NoUser
    /\ handled = FALSE
    /\ exc = NoExc
    /\ calls = << >>
    /\ regQueries = 0
    /\ regWrites = 0
    /\ registry = InitRegistry
    /\ requestLogs = << >>
    /\ csvSuccess = << >>
    /\ csvError = << >>
    /\ logCalls = 0
    /\ updateCalls = << >>
    /\ resp = NoResp
    /\ issued = 0
    /\ handedRole = Undefined
    /\ ctxRequestId = 0
    /\ rv = NoRv
    /\ svc = NoSvc

\* what the direct calls leave alone
pipelineVars == <<pc, reqNo, req, requestId, hdrRequestId, user, handled, exc, calls,
                  regQueries, regWrites, registry, logCalls, updateCalls, resp, issued,
                  handedRole, ctxRequestId, rv>>

\* logRequest(data) for a request to url, with a request id not used before
\* and timestamp new Date()
logRequestOf(url) ==
    /\ pc = "service"
    /\ Len(svc.inserted) < MaxInserts
    /\ \E d \in {0, 1} : now' = now + d
    /\ LET id   == Len(svc.inserted) + 1
           data == [id |-> id, timestamp |-> now', url |-> url,
                    success |-> "pending", statusCode |-> 0,
                    headers |-> << >>, body |-> NoBody]
       IN  /\ requestLogs' = logRequest(requestLogs, data)
           /\ svc' = [svc EXCEPT !.op = "logRequest", !.id = id, !.found = FALSE,
                                 !.inserted = Append(@, data),
                                 !.prevLogs = requestLogs, !.prevSuccess = csvSuccess,
                                 !.prevError = csvError, !.search = NoSearch]
    /\ UNCHANGED <<csvSuccess, csvError>>
    /\ UNCHANGED pipelineVars

logRequestCall == logRequestOf(Url("/", 0))

\* updateRequestLog(requestId, updateData) with any request id
updateRequestLogCall ==
    /\ pc = "service"
    /\ svc.updates < MaxUpdates
    /\ \E id \in 1..MaxInserts, success \in {"success", "error"} :
          /\ updateRequestLogAndPersist(requestLogs, id,
                 [success |-> success, statusCode |-> IF success = "success" THEN 200 ELSE 500])
          /\ svc' = [svc EXCEPT !.op = "updateRequestLog", !.id = id,
                                !.found = updateFound(requestLogs, id),
                                !.updates = @ + 1,
                                !.prevLogs = requestLogs, !.prevSuccess = csvSuccess,
                                !.prevError = csvError, !.search = NoSearch]
    /\ now' = now
    /\ UNCHANGED pipelineVars

NextLog ==
    \/ logRequestCall
    \/ updateRequestLogCall

SpecLog == InitLog /\ [][NextLog]_vars

----------------------------------------------------------------------------
(* RequestLogService behind the monitoring controller: requests are logged  *)
(* and completed, among them GET /monitoring/search/:requestId for an id    *)
(* logged before, and the operator clears the index and searches by id      *)

\* logRequest for a request to any route; the search route is asked for
\* requests that were completed
monitoredRequest ==
    \E k \in {0} \cup {csvSuccess[i].id : i \in 1..Len(csvSuccess)}
               \cup {csvError[i].id : i \in 1..Len(csvError)} :
        logRequestOf(IF k = 0 THEN Url("/", 0) ELSE Url("/monitoring/search/", k))

\* GET /monitoring/clear
clearLogsCall ==
    /\ pc = "service"
    /\ requestLogs # << >>
    /\ requestLogs' = clearLogs(requestLogs)
    /\ svc' = [svc EXCEPT !.op = "clearLogs", !.id = 0, !.found = FALSE,
                          !.prevLogs = << >>, !.prevSuccess = << >>,
                          !.prevError = << >>, !.search = NoSearch]
    /\ UNCHANGED <<now, csvSuccess, csvError>>
    /\ UNCHANGED pipelineVars

\* searchRequestById(requestId) with the id of any logged request
searchRequestByIdCall ==
    /\ pc = "service"
    /\ \E id \in 1..Len(svc.inserted) :
          svc' = [svc EXCEPT !.op = "searchRequestById", !.id = id, !.found = FALSE,
                             !.prevLogs = << >>, !.prevSuccess = << >>,
                             !.prevError = << >>,
                             !.search = searchRequestById(requestLogs, csvSuccess,
                                                          csvError, id)]
    /\ UNCHANGED <<now, requestLogs, csvSuccess, csvError>>
    /\ UNCHANGED pipelineVars

NextSearch ==
    \/ monitoredRequest
    \/ updateRequestLogCall
    \/ clearLogsCall
    \/ searchRequestByIdCall

SpecSearch == InitLog /\ [][NextSearch]_vars

----------------------------------------------------------------------------
(* RequestLogService from its construction on: the start-up load of the    *)
(* CSV files runs file by file while requests complete, the operator clears *)
(* the index and reads the memory status                                    *)

Reqs == 1..MaxConcurrent

\* the rows a CSV partition file may hold from earlier runs
FileSizes == 0..(MaxStoredLogs + 1)

\* CsvLoggerService.parseHistoricalFile: the RequestLog of each row of file f
parseHistoricalFile(f, rows) ==
    [j \in 1..rows |->
        [id |-> 10 * f + j, timestamp |-> 0, url |-> Url("/", 0),
         success |-> IF f = 1 THEN "success" ELSE "error",
         statusCode |-> IF f = 1 THEN 200 ELSE 500, headers |-> << >>, body |-> NoBody]]

\* for (const log of logs) this.requestLogs.set(log.requestId, log)
RECURSIVE SetAll(_, _)
SetAll(logs, parsed) ==
    IF parsed = << >> THEN logs ELSE SetAll(MapSet(logs, Head(parsed)), Tail(parsed))

NoStatus == [read |-> FALSE, currentCount |-> 0, needsCleanup |-> FALSE]

\* RequestLogService.getMemoryStatusRaw
getMemoryStatusRaw(logs) ==
    [read |-> TRUE, currentCount |-> Len(logs), needsCleanup |-> Len(logs) > MaxStoredLogs]

\* a variant of saveCompleteRequestLog that awaits between its two calls
Suspends_Awaits == TRUE

\* saveCompleteRequestLog and the filter's fallback call logRequest and
\* updateRequestLog one after the other, with no await in between
Suspends == FALSE

NoConc == [stage |-> [r \in Reqs |-> "handler"], kept |-> [r \in Reqs |-> FALSE],
           found |-> [r \in Reqs |-> FALSE], files |-> <<0, 0>>, nextFile |-> 1,
           cleared |-> FALSE, status |-> NoStatus]

\* the constructor has called void this.loadHistoricalLogs(), which runs up
\* to its first await
InitConcurrent ==
    /\ pc = "concurrent"
    /\ reqNo = 0
    /\ now = 1
    /\ req = NoReq
    /\ requestId = 0
    /\ hdrRequestId = 0
    /\ user = NoUser
    /\ handled = FALSE
    /\ exc = NoExc
    /\ calls = << >>
    /\ regQueries = 0
    /\ regWrites = 0
    /\ registry = InitRegistry
    /\ requestLogs = << >>
    /\ csvSuccess = << >>
    /\ csvError = << >>
    /\ logCalls = 0
    /\ updateCalls = << >>
    /\ resp = NoResp
    /\ issued = 0
    /\ handedRole = Undefined
    /\ ctxRequestId = 0
    /\ rv = NoRv
    /\ \E n1 \in FileSizes, n2 \in FileSizes : svc = [NoConc EXCEPT !.files = <<n1, n2>>]

concurrentFrame == <<pc, reqNo, req, requestId, hdrRequestId, user, handled, exc, calls,
                     regQueries, regWrites, registry, logCalls, updateCalls, resp, issued,
                     handedRole, ctxRequestId, rv>>

\* loadHistoricalLogs resumes after await parseHistoricalFile(filePath): the
\* rows of the file are stored; after the last file the index is cleaned up
loadHistoricalLogs ==
    /\ pc = "concurrent"
    /\ svc.nextFile <= Len(svc.files)
    /\ \E parseOk \in BOOLEAN :
          LET f      == svc.nextFile
              parsed == IF parseOk THEN parseHistoricalFile(f, svc.files[f]) ELSE << >>
              stored == SetAll(requestLogs, parsed)
          IN  requestLogs' = IF f = Len(svc.files) /\ Len(stored) > MaxStoredLogs
                             THEN cleanupOldLogs(stored) ELSE stored
    /\ svc' = [svc EXCEPT !.nextFile = @ + 1, !.status = NoStatus]
    /\ UNCHANGED <<now, csvSuccess, csvError>>
    /\ UNCHANGED concurrentFrame

\* request r completes: logRequest, then updateRequestLog
completeRequest(r) ==
    /\ pc = "concurrent"
    /\ svc.stage[r] \in {"handler", "logged"}
    /\ IF svc.stage[r] = "handler"
       THEN /\ \E d \in {0, 1} : now' = now + d
            /\ LET data    == [id |-> r, timestamp |-> now', url |-> Url("/", 0),
                               success |-> "pending", statusCode |-> 0,
                               headers |-> << >>, body |-> NoBody]
                   created == logRequest(requestLogs, data)
               IN  IF Suspends
                   THEN /\ requestLogs' = created
                        /\ svc' = [svc EXCEPT !.stage[r] = "logged",
                                              !.kept[r] = updateFound(created, r),
                                              !.status = NoStatus]
                        /\ UNCHANGED <<csvSuccess, csvError>>
                   ELSE /\ updateRequestLogAndPersist(created, r,
                               [success |-> "success", statusCode |-> 200])
                        /\ svc' = [svc EXCEPT !.stage[r] = "done",
                                              !.kept[r] = updateFound(created, r),
                                              !.found[r] = updateFound(created, r),
                                              !.status = NoStatus]
       ELSE /\ now' = now
            /\ updateRequestLogAndPersist(requestLogs, r,
                   [success |-> "success", statusCode |-> 200])
            /\ svc' = [svc EXCEPT !.stage[r] = "done",
                                  !.found[r] = updateFound(requestLogs, r),
                                  !.status = NoStatus]
    /\ UNCHANGED concurrentFrame

\* GET /monitoring/clear while requests are in flight
clearLogsConcurrent ==
    /\ pc = "concurrent"
    /\ requestLogs # << >>
    /\ requestLogs' = clearLogs(requestLogs)
    /\ svc' = [svc EXCEPT !.cleared = TRUE, !.status = NoStatus]
    /\ UNCHANGED <<now, csvSuccess, csvError>>
    /\ UNCHANGED concurrentFrame

\* GET /monitoring/memory reads the memory status
readMemoryStatus ==
    /\ pc = "concurrent"
    /\ ~svc.status.read
    /\ svc' = [svc EXCEPT !.status = getMemoryStatusRaw(requestLogs)]
    /\ UNCHANGED <<now, requestLogs, csvSuccess, csvError>>
    /\ UNCHANGED concurrentFrame

NextConcurrent ==
    \/ loadHistoricalLogs
    \/ \E r \in Reqs : completeRequest(r)
    \/ clearLogsConcurrent
    \/ readMemoryStatus

SpecConcurrent == InitConcurrent /\ [][NextConcurrent]_vars

----------------------------------------------------------------------------
(* AuthService.login called directly, over any users table *)

Emails == {"user@example.com", "other@example.com"}

Passwords == {"password123", "wrong"}

Null == [found |-> FALSE, email |-> ""]

\* the users table: the stored password of each registered email
UsersTables == UNION {[K -> Passwords] : K \in SUBSET Emails}

\* UserEntity.verifyPassword
verifyPassword(stored, password) == stored = password

\* UserRepository.findByEmailAndPassword: the user without the password, or null
findByEmailAndPassword(users, email, password) ==
    IF email \notin DOMAIN users THEN Null
    ELSE IF ~verifyPassword(users[email], password) THEN Null
    ELSE [found |-> TRUE, email |-> email]

\* a variant that lets a missing user through
validateUser_NeverThrows(found) == "none"

\* AuthService.validateUser: what it throws for the repository's answer
validateUser(found) == IF ~found.found THEN "UnauthorizedException" ELSE "none"

NoLogin == [op |-> "none", users |-> << >>, logins |-> 0, email |-> "", password |-> "",
            trace |-> << >>, thrown |-> "none", result |-> Null]

InitLogin ==
    /\ pc = "auth"
    /\ reqNo = 0
    /\ now = 1
    /\ req = NoReq
    /\ requestId = 0
    /\ hdrRequestId = 0
    /\ user = NoUser
    /\ handled = FALSE
    /\ exc = NoExc
    /\ calls = << >>
    /\ regQueries = 0
    /\ regWrites = 0
    /\ registry = InitRegistry
    /\ requestLogs = << >>
    /\ csvSuccess = << >>
    /\ csvError = << >>
    /\ logCalls = 0
    /\ updateCalls = << >>
    /\ resp = NoResp
    /\ issued = 0
    /\ handedRole = Undefined
    /\ ctxRequestId = 0
    /\ rv = NoRv
    /\ \E users \in UsersTables : svc = [NoLogin EXCEPT !.users = users]

loginFrame == <<reqNo, now, req, requestId, hdrRequestId, user, handled, exc, calls,
                regQueries, regWrites, registry, requestLogs, csvSuccess, csvError,
                logCalls, updateCalls, resp, issued, handedRole, ctxRequestId, rv>>

\* login(email, password) is called
login ==
    /\ pc = "auth"
    /\ svc.logins < MaxLogins
    /\ \E email \in Emails, password \in Passwords :
          svc' = [svc EXCEPT !.op = "login", !.logins = @ + 1, !.email = email,
                             !.password = password, !.trace = << >>,
                             !.thrown = "none", !.result = Null]
    /\ pc' = "validateUser"
    /\ UNCHANGED loginFrame

\* await this.validateUser(email, password): the query settles or rejects
validateUserStep ==
    /\ pc = "validateUser"
    /\ \E dbOk \in BOOLEAN :
          LET found  == findByEmailAndPassword(svc.users, svc.email, svc.password)
              thrown == IF dbOk THEN validateUser(found) ELSE "QueryFailedError"
          IN  /\ svc' = [svc EXCEPT !.trace = Append(@, "findByEmailAndPassword"),
                                    !.thrown = thrown,
                                    !.result = IF dbOk THEN found ELSE Null]
              /\ pc' = IF thrown = "none" THEN "generateTokenPair" ELSE "auth"
    /\ UNCHANGED loginFrame

\* this.myJwtService.generateTokenPair(payload), then the response is returned
generateTokenPairStep ==
    /\ pc = "generateTokenPair"
    /\ svc' = [svc EXCEPT !.trace = Append(@, "generateTokenPair")]
    /\ pc' = "auth"
    /\ UNCHANGED loginFrame

NextLogin ==
    \/ login
    \/ validateUserStep
    \/ generateTokenPairStep

SpecLogin == InitLogin /\ [][NextLogin]_vars

----------------------------------------------------------------------------
(* The logging pipeline on a request with any header map and body: the      *)
(* interceptor (saveCompleteRequestLog) or the filter's fallback records    *)
(* it, then the monitoring endpoint returns the stored entry                *)

InitRedact ==
    /\ pc = "capture"
    /\ reqNo = 1
    /\ now = 1
    /\ \E h \in HeaderMaps, b \in Bodies : req = [NoReq EXCEPT !.headers = h, !.body = b]
    /\ requestId = 1
    /\ hdrRequestId = 1
    /\ user = NoUser
    /\ handled = FALSE
    /\ exc = NoExc
    /\ calls = << >>
    /\ regQueries = 0
    /\ regWrites = 0
    /\ registry = InitRegistry
    /\ requestLogs = << >>
    /\ csvSuccess = << >>
    /\ csvError = << >>
    /\ logCalls = 0
    /\ updateCalls = << >>
    /\ resp = NoResp
    /\ issued = 0
    /\ handedRole = Undefined
    /\ ctxRequestId = 1
    /\ rv = NoRv
    /\ svc = NoSvc

redactFrame == <<reqNo, now, req, requestId, hdrRequestId, user, exc, calls, regQueries,
                 regWrites, registry, issued, handedRole, ctxRequestId, rv, svc>>

\* RequestLoggingInterceptor.saveCompleteRequestLog, from tap or from catchError
saveCompleteRequestLog ==
    /\ pc = "capture"
    /\ \E success \in {"success", "error"} :
          RecordCompletion(ctxRequestId, success, IF success = "success" THEN 200 ELSE 500,
                           "interceptor")
    /\ handled' = TRUE
    /\ pc' = "saved"
    /\ resp' = resp
    /\ UNCHANGED redactFrame

\* the fallback logging of AllExceptionsFilter.catch
filterFallbackLog ==
    /\ pc = "capture"
    /\ RecordCompletion(requestId, "error", 401, "filter")
    /\ pc' = "saved"
    /\ UNCHANGED <<handled, resp>>
    /\ UNCHANGED redactFrame

\* RequestLogService.getRequestLog: the entry as stored, or a not-found message
getRequestLog ==
    /\ pc = "saved"
    /\ LET i == MapGet(requestLogs, requestId)
       IN  resp' = IF i = 0 THEN [NoResp EXCEPT !.sent = TRUE, !.status = 200]
                   ELSE [NoResp EXCEPT !.sent = TRUE, !.status = 200, !.found = TRUE,
                                       !.data = [headers |-> requestLogs[i].headers,
                                                 body |-> requestLogs[i].body]]
    /\ pc' = "returned"
    /\ UNCHANGED handled
    /\ UNCHANGED logVars
    /\ UNCHANGED redactFrame

NextRedact ==
    \/ saveCompleteRequestLog
    \/ filterFallbackLog
    \/ getRequestLog

SpecRedact == InitRedact /\ [][NextRedact]_vars

----------------------------------------------------------------------------
(* AllExceptionsFilter.catch on its own, for an error the interceptor has   *)
(* not recorded: raised by the guard or the router after the tagging        *)
(* middleware ran, or raised before it (the body parser precedes the        *)
(* module's middleware), with or without an x-request-id header from the    *)
(* client                                                                   *)

FilterErrors ==
    HandlerThrows \cup {HttpException(401, "INVALID_JWT_TOKEN"), HttpException(403, "CLIENT_INACTIVE")}

InitFilter ==
    /\ pc = "filter"
    /\ reqNo = 1
    /\ now = 1
    /\ \E r \in Routes, x \in {0, ClientRequestId} :
          req = [NoReq EXCEPT !.route = r, !.xRequestId = x]
    /\ requestId \in {0, reqNo}
    /\ hdrRequestId = requestId
    /\ user = NoUser
    /\ handled = FALSE
    /\ exc \in FilterErrors
    /\ calls = << >>
    /\ regQueries = 0
    /\ regWrites = 0
    /\ registry = InitRegistry
    /\ requestLogs = << >>
    /\ csvSuccess = << >>
    /\ csvError = << >>
    /\ logCalls = 0
    /\ updateCalls = << >>
    /\ resp = NoResp
    /\ issued = 0
    /\ handedRole = Undefined
    /\ ctxRequestId = 0
    /\ rv = NoRv
    /\ svc = NoSvc

NextFilter == AllExceptionsFilter_catch

SpecFilter == InitFilter /\ [][NextFilter]_vars

----------------------------------------------------------------------------
(* The interceptor on a request that RequestLoggingMiddleware has not       *)
(* tagged: a public route, reached with request.requestId undefined         *)

InitUntagged ==
    /\ pc = "interceptor"
    /\ reqNo = 1
    /\ now = 1
    /\ \E r \in {x \in Routes : x.matched /\ x.policy = "Public"}, h \in ClientHeaders,
          x \in {0, ClientRequestId} :
          req = [NoReq EXCEPT !.route = r, !.clientHdr = h,
                              !.headers = RequestHeaders(h, NoToken), !.xRequestId = x]
    /\ requestId = 0
    /\ hdrRequestId = 0
    /\ user = NoUser
    /\ handled = FALSE
    /\ exc = NoExc
    /\ calls = << >>
    /\ regQueries = 0
    /\ regWrites = 0
    /\ registry = InitRegistry
    /\ requestLogs = << >>
    /\ csvSuccess = << >>
    /\ csvError = << >>
    /\ logCalls = 0
    /\ updateCalls = << >>
    /\ resp = NoResp
    /\ issued = 0
    /\ handedRole = Undefined
    /\ ctxRequestId = 0
    /\ rv = NoRv
    /\ svc = NoSvc

NextUntagged ==
    \/ intercept
    \/ tap
    \/ catchError
    \/ AllExceptionsFilter_catch

SpecUntagged == InitUntagged /\ [][NextUntagged]_vars

----------------------------------------------------------------------------
(* Properties *)

\* the matched route carries the Public tag / does not carry it
PublicRoute == req.route.matched /\ req.route.policy = "Public"

Protected == req.route.matched /\ req.route.policy # "Public"

\* the guard has let the request through
Allowed == pc \in {"interceptor", "handler"} \/ handled

\* the guard has thrown: the request is at (or past) the filter without the
\* interceptor having seen it
Denied == req.route.matched /\ pc \in {"filter", "done"} /\ ~handled

Stages == <<"client", "token", "role">>

IsPrefix(s, t) == Len(s) <= Len(t) /\ s = SubSeq(t, 1, Len(s))

ClientCodes == {"MISSING_CLIENT_UUID_HEADER", "CLIENT_UUID_NOT_FOUND",
                "CLIENT_VALIDATION_ERROR", "CLIENT_INACTIVE"}

RoleCodes == {"SUPERADMIN_ACCESS_REQUIRED", "ADMIN_ACCESS_REQUIRED", "INSUFFICIENT_ROLE_PERMISSIONS"}

StageOf(code) ==
    IF code \in ClientCodes THEN "client"
    ELSE IF code = "INVALID_JWT_TOKEN" THEN "token"
    ELSE IF code \in RoleCodes THEN "role"
    ELSE "none"

\* the request is on a noise-list path and ends as a 404 the interceptor never saw
NoiseNotFound == req.route.path \in ignoredPaths /\ resp.status = 404 /\ ~handled

\* C1 (as stated): by the time the response is sent updateRequestLog has been
\* invoked exactly once for the request, whatever stage ended it.
C1_ExactlyOnce == pc = "done" => Len(updateCalls) = 1

\* C1 (amended): updateRequestLog is never invoked twice for a request; when the
\* response is sent it has been invoked exactly once - by the interceptor if the
\* handler ran, by the filter otherwise - except for a 404 on a noise-list path
\* that the interceptor never saw, for which it is not invoked at all.
C1_ExactlyOnceUnlessNoise ==
    /\ Len(updateCalls) <= 1
    /\ pc = "done" =>
          IF NoiseNotFound THEN updateCalls = << >>
          ELSE IF handled THEN updateCalls = <<"interceptor">>
          ELSE updateCalls = <<"filter">>

\* C1 witness: a handler threw a typed HTTP error; the interceptor recorded it
\* and the filter, which sent the response, did not record it again.
C1_Witness ==
    /\ pc = "done" /\ handled /\ exc.kind = "http" /\ resp.status = 400
    /\ updateCalls = <<"interceptor">>

\* C2: on a protected route the guard runs client check, token check and role
\* check in that order; the request is allowed only after all three ran, a
\* stage that failed is the last one run, and the error raised is that of the
\* first stage that fails (a bad client header wins over a bad token, a bad
\* token over an insufficient role).
C2_StagesInOrder ==
    Protected =>
        /\ IsPrefix(calls, Stages)
        /\ Allowed => calls = Stages
        /\ Denied => /\ calls # << >>
                     /\ StageOf(exc.code) = calls[Len(calls)]
        /\ (Denied /\ ~hasClientUuid(req.clientHdr)) => calls = <<"client">>
        /\ (Denied /\ ~(JwtVerify(req.token, StrategyOptions) /\ validateOk(req.token)))
              => "role" \notin {calls[i] : i \in 1..Len(calls)}

\* C2 witness: header missing and no token: the client error is the one raised.
C2_Witness ==
    /\ pc = "done" /\ Protected /\ req.clientHdr = NoHeader /\ ~req.token.present
    /\ req.route.policy = "RequireAdmin"
    /\ resp.error = "MISSING_CLIENT_UUID_HEADER" /\ calls = <<"client">>

\* C3: a request to a Public route is let through by the guard without any
\* validator being invoked, without the registry being read or written and
\* without anything being attached, whatever headers it carries.
C3_PublicBypass ==
    (PublicRoute /\ pc \notin {"idle", "middleware", "guard"}) =>
        /\ calls = << >>
        /\ regQueries = 0
        /\ regWrites = 0
        /\ user = NoUser
        /\ Allowed

\* C3 witness: a public route reached its handler although the request carried
\* an inactive client and an expired token.
C3_Witness ==
    /\ pc = "handler" /\ PublicRoute
    /\ req.clientHdr = "c-inactive" /\ req.token.present /\ req.token.expired

\* the decision table of the access policies
ShouldPass(policy, roles, role) ==
    CASE policy = "AuthenticatedOnly" -> TRUE
      [] policy = "RequireRole"       -> role \in roles
      [] policy = "RequireAdmin"      -> role \in {"admin", "superadmin"}
      [] policy = "RequireSuperAdmin" -> role = "superadmin"

RequiredOf(policy, roles) ==
    CASE policy = "RequireRole"       -> roles
      [] policy = "RequireAdmin"      -> {"admin", "superadmin"}
      [] policy = "RequireSuperAdmin" -> {"superadmin"}
      [] OTHER                        -> {}

\* C4 (as stated): validateRolePermissions passes exactly when the decision
\* table says so and otherwise throws a 403 carrying the required roles and
\* the caller's role.
C4_DecisionTable ==
    rv.done =>
        /\ rv.verdict.ok <=> ShouldPass(rv.policy, rv.roles, rv.userRole)
        /\ ~rv.verdict.ok => /\ rv.verdict.status = 403
                             /\ rv.verdict.required = RequiredOf(rv.policy, rv.roles)
                             /\ rv.verdict.userRole = rv.userRole

\* C4 (amended): as the decision table, except that a RequireRole route whose
\* role set is empty counts as a route without role requirement and passes.
C4_DecisionTableNonEmpty ==
    rv.done =>
        /\ rv.verdict.ok <=>
              IF rv.policy = "RequireRole" /\ rv.roles = {} THEN TRUE
              ELSE ShouldPass(rv.policy, rv.roles, rv.userRole)
        /\ ~rv.verdict.ok => /\ rv.verdict.status = 403
                             /\ rv.verdict.required = RequiredOf(rv.policy, rv.roles)
                             /\ rv.verdict.userRole = rv.userRole

\* C4 witness: a caller with role user passed a RequireRole route with an empty set.
C4_Witness ==
    /\ rv.done /\ rv.policy = "RequireRole" /\ rv.roles = {} /\ rv.userRole = "user"
    /\ rv.verdict.ok

\* the guard is past extractClientUuid / past the registry look-up
PastExtract == pc \notin {"idle", "middleware", "guard"}

PastLookup == PastExtract /\ pc # "findClient"

CalledStages == {calls[i] : i \in 1..Len(calls)}

\* C5: the client check fails with 401 on a missing or blank x-client-uuid
\* header without querying the registry, with 401 on an identifier that is not
\* registered, with 403 on a registered but inactive client; whenever the
\* client check fails nothing is written to the registry and nothing is
\* attached to the request, and the response carries the error's status.
C5_ClientCheckFailures ==
    Protected =>
        LET hdr == req.clientHdr
            id  == trim(hdr)
        IN  /\ (PastExtract /\ (hdr = NoHeader \/ id = "")) =>
                  /\ Denied /\ exc.status = 401 /\ exc.code = "MISSING_CLIENT_UUID_HEADER"
                  /\ regQueries = 0
            /\ (PastLookup /\ hdr # NoHeader /\ id # "" /\ id \notin DOMAIN registry) =>
                  /\ Denied /\ exc.status = 401
                  /\ exc.code \in {"CLIENT_UUID_NOT_FOUND", "CLIENT_VALIDATION_ERROR"}
            /\ (PastLookup /\ id \in DOMAIN registry /\ ~registry[id].isActive) =>
                  /\ Denied
                  /\ \/ exc.status = 403 /\ exc.code = "CLIENT_INACTIVE"
                     \/ exc.status = 401 /\ exc.code = "CLIENT_VALIDATION_ERROR"
            /\ (Denied /\ calls = <<"client">>) =>
                  /\ regWrites = 0
                  /\ user = NoUser
                  /\ pc = "done" => resp.status = exc.status

\* C5 witness: an inactive client was turned away with 403 after one look-up.
C5_Witness ==
    /\ pc = "done" /\ Protected /\ req.clientHdr = "c-inactive"
    /\ resp.status = 403 /\ resp.error = "CLIENT_INACTIVE"
    /\ regQueries = 1 /\ regWrites = 0 /\ user = NoUser

\* C6: once the token check has succeeded, the identity attached to the
\* request carries the token's role and token type, and the role handed to
\* the role validator is the token's role.
C6_IdentityCarriesRole ==
    "role" \in CalledStages =>
        /\ user.role = req.token.role
        /\ user.tokenType = req.token.tokenType
        /\ handedRole = req.token.role

\* C7: POST /auth/refresh with an active client and a valid bearer token
\* answers 200 and issues a new access token if the token's type is refresh,
\* and answers 401 'Invalid token type' if it is access.
C7_RefreshByTokenType ==
    (pc = "done" /\ req.route.refresh /\ calls = Stages /\ handled) =>
        /\ req.token.tokenType = "refresh" => (resp.status = 200 /\ issued = 1)
        /\ req.token.tokenType = "access" =>
              (resp.status = 401 /\ resp.error = "Invalid token type" /\ issued = 0)

\* C8: on a protected route other than the refresh endpoint, a request whose
\* client check passed and whose token has type refresh is rejected with 401
\* by the token check and never reaches the handler.
C8_RefreshTokenRejectedElsewhere ==
    (Protected /\ ~req.route.refresh /\ "token" \in CalledStages
       /\ req.token.present /\ req.token.tokenType = "refresh") =>
        /\ Denied
        /\ exc.status = 401

\* C9: the token check fails with 401 for every correctly signed, unexpired
\* token whose issuer or audience is not the configured one.
C9_IssuerAudienceChecked ==
    (Protected /\ "token" \in CalledStages /\ req.token.present
       /\ req.token.sigOk /\ ~req.token.expired
       /\ (~req.token.issOk \/ ~req.token.audOk)) =>
        /\ Denied
        /\ exc.status = 401 /\ exc.code = "INVALID_JWT_TOKEN"

\* C10: on a protected route a request with an expired bearer token is never
\* allowed; when the token check runs it fails with 401 INVALID_JWT_TOKEN,
\* also with a correct signature and a valid client identifier.
C10_ExpiredTokenDenied ==
    (Protected /\ req.token.present /\ req.token.expired) =>
        /\ ~Allowed
        /\ "token" \in CalledStages =>
              /\ Denied /\ exc.status = 401 /\ exc.code = "INVALID_JWT_TOKEN"
              /\ calls = <<"client", "token">>
              /\ pc = "done" => resp.status = 401

\* C10 witness: an active client sent a correctly signed, expired token and
\* got 401 INVALID_JWT_TOKEN.
C10_Witness ==
    /\ pc = "done" /\ Protected /\ req.clientHdr = "c-active"
    /\ req.token.present /\ req.token.sigOk /\ req.token.expired
    /\ resp.status = 401 /\ resp.error = "INVALID_JWT_TOKEN"
    /\ calls = <<"client", "token">>

ExcludesSuperadmin == rv.policy = "RequireRole" /\ rv.roles # {} /\ "superadmin" \notin rv.roles

Kept == {requestLogs[i] : i \in 1..Len(requestLogs)}

KeptIds == {e.id : e \in Kept}

Evicted == {svc.inserted[i] : i \in 1..Len(svc.inserted)} \ {e \in
               {svc.inserted[i] : i \in 1..Len(svc.inserted)} : e.id \in KeptIds}

\* C12: starting from an empty index, once more than capacity entries with
\* distinct ids have been logged one after the other, the index holds exactly
\* capacity entries, each of them one of the logged entries, and no evicted
\* entry has a more recent timestamp than an entry that was kept.
C12_EvictionBound ==
    (pc = "service" /\ Len(svc.inserted) > MaxStoredLogs) =>
        /\ Len(requestLogs) = MaxStoredLogs
        /\ Cardinality(KeptIds) = MaxStoredLogs
        /\ \A k \in Kept : \E i \in 1..Len(svc.inserted) :
               svc.inserted[i].id = k.id /\ svc.inserted[i].timestamp = k.timestamp
        /\ \A k \in Kept, e \in Evicted : k.timestamp >= e.timestamp

\* C12 witness: capacity + 2 entries were logged at strictly growing times;
\* the two oldest are gone and the newest are in the index.
C12_Witness ==
    /\ pc = "service" /\ Len(svc.inserted) = MaxStoredLogs + 2
    /\ \A i \in 1..(Len(svc.inserted) - 1) :
           svc.inserted[i].timestamp < svc.inserted[i + 1].timestamp
    /\ KeptIds = (3..(MaxStoredLogs + 2))
    /\ Cardinality(Evicted) = 2

\* the sensitive keys named by the specification
SensitiveKeys == {"authorization", "cookie", "password", "token", "secret"}

\* every sensitive key of a header map / a body carries the redaction marker
HeadersRedacted(headers) ==
    \A k \in DOMAIN headers : k \in SensitiveKeys => headers[k] = Redacted

BodyRedacted(body) ==
    body.present => \A k \in DOMAIN body.fields : k \in SensitiveKeys => body.fields[k] = Redacted

\* C13: in every header map and request body that the logging pipeline holds
\* in memory, has written to the CSV logs or has returned from the monitoring
\* endpoint, every key of the sensitive set carries '[REDACTED]'.
C13_SensitiveKeysRedacted ==
    /\ \A i \in 1..Len(requestLogs) :
           HeadersRedacted(requestLogs[i].headers) /\ BodyRedacted(requestLogs[i].body)
    /\ \A i \in 1..Len(csvSuccess) :
           HeadersRedacted(csvSuccess[i].headers) /\ BodyRedacted(csvSuccess[i].body)
    /\ \A i \in 1..Len(csvError) :
           HeadersRedacted(csvError[i].headers) /\ BodyRedacted(csvError[i].body)
    /\ HeadersRedacted(resp.data.headers) /\ BodyRedacted(resp.data.body)

\* the thrown value's message carries a signature, whatever the letter case
Mentions(e, needle) == includes(toLowerCase(e.msg), needle)

\* the status the filter is to answer for a thrown value; other is the status
\* for a value that is neither an HttpException, nor an Error, nor a string
MappedStatus(e, other) ==
    CASE e.kind = "http"   -> e.status
      [] e.kind = "error"  -> IF Mentions(e, "duplicate") \/ Mentions(e, "unique") THEN 409
                              ELSE IF Mentions(e, "foreign key") THEN 400
                              ELSE 500
      [] e.kind = "string" -> 500
      [] OTHER             -> other

\* the filter has answered for a thrown value
Answered == pc = "done" /\ exc.kind # "none"

\* C14 (as stated): an HttpException keeps its status and payload; an Error
\* mentioning duplicate or unique becomes 409, one mentioning foreign key
\* 400; every other thrown value, whatever its shape, becomes 500.
C14_StatusMapping ==
    Answered =>
        /\ resp.status = MappedStatus(exc, 500)
        /\ exc.kind = "http" => resp.error = exc.code

\* C14 (amended): as stated for HttpException, Error and string; a thrown
\* value of any other shape (a plain object) becomes 503 Service Unavailable.
C14_StatusMappingOther503 ==
    Answered =>
        /\ resp.status = MappedStatus(exc, 503)
        /\ exc.kind = "http" => resp.error = exc.code
        /\ exc.kind = "error" =>
              resp.error = (CASE resp.status = 409 -> "Duplicate record"
                              [] resp.status = 400 -> "Invalid relation"
                              [] OTHER -> resp.error)
        /\ exc.kind = "object" => resp.error = "Unexpected error"

\* C14 witness: a handler threw a plain object and the client got 503.
C14_Witness ==
    /\ pc = "done" /\ handled /\ exc.kind = "object"
    /\ resp.status = 503 /\ resp.error = "Unexpected error"

\* the filter answered a request the interceptor never saw
FilterOnly == pc = "done" /\ ~handled

\* the index holds an entry for the request / a CSV partition holds a row for it
HasEntry(id) == \E i \in 1..Len(requestLogs) : requestLogs[i].id = id

HasRow(id) ==
    \/ \E i \in 1..Len(csvSuccess) : csvSuccess[i].id = id
    \/ \E i \in 1..Len(csvError) : csvError[i].id = id

\* C15: when the filter answers 404 for a path on the noise list, it creates
\* no log entry and does not call updateRequestLog, and still sends the 404
\* response with status, error and request id; for the same path with any
\* other status, and for a path that is not exactly a noise-list entry, the
\* filter records the error (one logRequest, one updateRequestLog).  To an
\* error the interceptor has recorded the filter adds nothing in either case.
C15_NoiseNotLogged ==
    /\ FilterOnly =>
          /\ resp.sent /\ resp.status = processException(exc, TRUE).status
          /\ resp.requestId = requestId /\ resp.requestId # 0
          /\ IF req.route.path \in ignoredPaths /\ resp.status = 404
             THEN /\ logCalls = 0 /\ updateCalls = << >>
                  /\ ~HasEntry(requestId) /\ ~HasRow(requestId)
             ELSE /\ logCalls = 1 /\ updateCalls = <<"filter">>
    /\ (pc = "done" /\ handled /\ exc.kind # "none") =>
          /\ resp.sent /\ logCalls = 1 /\ updateCalls = <<"interceptor">>

\* C15 witness: an unmatched /favicon.ico got its 404 and left no trace.
C15_Witness ==
    /\ FilterOnly /\ req.route.path = "/favicon.ico"
    /\ resp.sent /\ resp.status = 404 /\ resp.error = "Cannot GET"
    /\ logCalls = 0 /\ updateCalls = << >> /\ requestLogs = << >>

\* the tagging middleware has stamped the request
Tagged == requestId = reqNo

\* the id the filter answered with is one it generated itself
FreshId == resp.requestId = FilterUuidBase + reqNo

\* the filter's answer carries one id, in header and body, and an entry the
\* filter wrote is stored under it
OneId ==
    /\ resp.sent /\ resp.requestId # 0 /\ hdrRequestId = resp.requestId
    /\ updateCalls = <<"filter">> => HasEntry(resp.requestId)
    /\ \A i \in 1..Len(requestLogs) : requestLogs[i].id = resp.requestId

\* C16 (as stated): the error response carries the same id in X-Request-ID and
\* in the body; it is the tagging middleware's id when the request has one
\* and a freshly generated id otherwise; the filter's log entry is stored
\* under it.
C16_ResponseId ==
    (pc = "done" /\ exc.kind # "none" /\ ~handled) =>
        /\ OneId
        /\ IF Tagged THEN resp.requestId = reqNo ELSE FreshId

\* C16 (amended): as stated, except that for a request without the
\* middleware's id the filter answers with the client's x-request-id header
\* when the request carries one, and generates an id only when it does not.
C16_ResponseIdOrClientHeader ==
    (pc = "done" /\ exc.kind # "none" /\ ~handled) =>
        /\ OneId
        /\ IF Tagged THEN resp.requestId = reqNo
           ELSE IF req.xRequestId # 0 THEN resp.requestId = req.xRequestId
           ELSE FreshId /\ requestId = resp.requestId

\* C16 witness: an untagged request with a client x-request-id header got
\* that header's value back, and the log entry is stored under it.
C16_Witness ==
    /\ pc = "done" /\ ~Tagged /\ req.xRequestId = ClientRequestId
    /\ resp.requestId = ClientRequestId /\ hdrRequestId = ClientRequestId
    /\ updateCalls = <<"filter">> /\ HasEntry(ClientRequestId)

\* the answer a request gets when every log write succeeds: 200 from the
\* handler, or the filter's mapping of what was thrown
ExpectedStatus == IF exc.kind = "none" THEN 200 ELSE MappedStatus(exc, 503)

ExpectedError ==
    IF exc.kind = "none" THEN ""
    ELSE IF exc.kind = "http" THEN exc.code
    ELSE resp.error

\* CSV rows written for the request
RowsOf(id) ==
    Cardinality({i \in 1..Len(csvSuccess) : csvSuccess[i].id = id})
    + Cardinality({i \in 1..Len(csvError) : csvError[i].id = id})

\* C17: a failure while recording a request - a failed CSV append, a throwing
\* logRequest or updateRequestLog - is caught: the request still gets the
\* status and body it gets when logging succeeds, and the write is not
\* retried (at most one logRequest, one updateRequestLog and one CSV row per
\* request).
C17_LoggingFailureHarmless ==
    /\ logCalls <= 1 /\ Len(updateCalls) <= 1
    /\ pc = "done" =>
          /\ resp.sent
          /\ resp.status = ExpectedStatus
          /\ resp.error = ExpectedError
          /\ RowsOf(resp.requestId) <= 1
          /\ logCalls = 0 => RowsOf(resp.requestId) = 0

\* C17 witness: the handler returned, logRequest threw inside
\* saveCompleteRequestLog, nothing was stored, and the client got its 200.
C17_Witness ==
    /\ pc = "done" /\ handled /\ exc.kind = "none"
    /\ logCalls = 1 /\ updateCalls = << >> /\ requestLogs = << >>
    /\ resp.sent /\ resp.status = 200

\* the last direct call was updateRequestLog with an id that has no entry
UpdatedUnknown ==
    /\ pc = "service" /\ svc.op = "updateRequestLog"
    /\ \A i \in 1..Len(svc.prevLogs) : svc.prevLogs[i].id # svc.id

\* C18: updateRequestLog called with a request id that has no entry in the
\* index returns, leaves the index as it was and appends nothing to either
\* CSV partition.
C18_UpdateUnknownIsNoOp ==
    UpdatedUnknown =>
        /\ requestLogs = svc.prevLogs
        /\ csvSuccess = svc.prevSuccess
        /\ csvError = svc.prevError

\* C18 witness: the entry of request 1 had been evicted from a full index
\* when updateRequestLog(1) was called; index and CSV logs stayed as they were.
C18_Witness ==
    /\ UpdatedUnknown /\ svc.id = 1 /\ Len(svc.inserted) > MaxStoredLogs
    /\ Len(requestLogs) = MaxStoredLogs /\ requestLogs = svc.prevLogs
    /\ csvSuccess = << >> /\ csvError = << >>

\* the client check has found the request's client registered and active
ActiveClientFound ==
    /\ Protected /\ hasClientUuid(req.clientHdr)
    /\ trim(req.clientHdr) \in DOMAIN registry /\ registry[trim(req.clientHdr)].isActive
    /\ pc \notin {"idle", "middleware", "guard", "findClient"}
    /\ ~(Denied /\ exc.code = "CLIENT_VALIDATION_ERROR")

\* C19: once an active registered client has been found, the outcome of the
\* lastSeenAt write does not matter: when the write has settled, failed or
\* not, the client's identifier and type are attached to the request and the
\* guard goes on to the token check; the client check raises no error.
C19_LastSeenFailureSwallowed ==
    ActiveClientFound =>
        /\ Denied => StageOf(exc.code) \in {"token", "role"}
        /\ pc = "updateLastSeen" => (calls = <<"client">> /\ exc = NoExc)
        /\ pc = "jwt" =>
              /\ user.clientUuid = trim(req.clientHdr)
              /\ user.clientType = registry[trim(req.clientHdr)].clientType
              /\ calls = <<"client">> /\ exc = NoExc
              /\ regWrites \in {0, 1}
        /\ (pc \notin {"updateLastSeen", "jwt"}) => "token" \in CalledStages

\* C19 witness: the write failed (lastSeenAt is still unset), the client was
\* attached all the same, and the token check then ran.
C19_Witness ==
    /\ ActiveClientFound /\ pc = "done" /\ regWrites = 0
    /\ registry[trim(req.clientHdr)].lastSeenAt = 0
    /\ "token" \in CalledStages /\ resp.sent

\* C20: the guard does not wait for the lastSeenAt write: a request whose
\* client check has started the write is always answered in the end, also
\* when the write never settles.
C20_WriteNeverBlocks ==
    (pc = "updateLastSeen") ~> (pc = "done")

\* the filter answered an Error that is neither an HttpException nor carries
\* a database-constraint signature
Unclassified ==
    /\ Answered /\ exc.kind = "error"
    /\ ~Mentions(exc, "duplicate") /\ ~Mentions(exc, "unique") /\ ~Mentions(exc, "foreign key")

\* C21: for an unclassified Error the body of the error response holds the
\* stack trace exactly when the process is not in production mode; in
\* production mode it holds only the generic message.
C21_StackOnlyOutsideProduction ==
    Unclassified =>
        /\ resp.status = 500
        /\ resp.stack <=> ~resp.prod
        /\ resp.prod => resp.error = "Internal server error"

----------------------------------------------------------------------------
\* the partitions that hold a row of request id
RowTypes(id) ==
    {t \in {"success", "error"} :
        LET rows == IF t = "success" THEN csvSuccess ELSE csvError
        IN  \E i \in 1..Len(rows) : rows[i].id = id}

\* C22: whatever was logged, completed, evicted or cleared before, a search
\* for a request whose completion was appended to a CSV partition finds it:
\* in memory while the index holds it, otherwise in the CSV files and with
\* the type of a partition that holds the request's row.
C22_CompletionsStayFound ==
    (pc = "service" /\ svc.op = "searchRequestById" /\ HasRow(svc.id)) =>
        /\ svc.search.found
        /\ IF HasEntry(svc.id)
           THEN svc.search.source = "memory"
           ELSE /\ svc.search.source = "csv"
                /\ svc.search.type \in RowTypes(svc.id)
----------------------------------------------------------------------------
\* C23: GET /auth/test without an Authorization header is denied: the
\* handler does not run and the response is 401 (statusCode 401 in the body).
C23_TestWithoutTokenDenied ==
    (pc = "done" /\ req.route.path = "/auth/test" /\ ~req.token.present) =>
        ~handled /\ resp.sent /\ resp.status = 401
----------------------------------------------------------------------------
\* a login call has returned or thrown
LoginOver == pc = "auth" /\ svc.op = "login"

\* the credentials of the call match a user of the table
Matching ==
    svc.email \in DOMAIN svc.users /\ svc.users[svc.email] = svc.password

IssuerCalls == Cardinality({i \in 1..Len(svc.trace) : svc.trace[i] = "generateTokenPair"})

\* C24: a login whose credentials match no user never calls generateTokenPair,
\* at any point of the call, and ends in UnauthorizedException when the user
\* lookup answered; a login with matching credentials whose lookup answered
\* calls generateTokenPair exactly once, after the credential check.
C24_IssuerOnlyAfterCheck ==
    /\ (svc.op = "login" /\ ~Matching) => IssuerCalls = 0
    /\ (LoginOver /\ ~Matching /\ svc.thrown # "QueryFailedError") =>
           svc.thrown = "UnauthorizedException"
    /\ (LoginOver /\ Matching /\ svc.thrown # "QueryFailedError") =>
           /\ svc.thrown = "none"
           /\ svc.trace = <<"findByEmailAndPassword", "generateTokenPair">>

\* C24 witness: the second login call is refused for the wrong password of
\* a registered email, and the token issuer was not called.
C24_Witness ==
    /\ LoginOver /\ svc.logins = 2
    /\ svc.email \in DOMAIN svc.users /\ ~Matching
    /\ svc.thrown = "UnauthorizedException" /\ IssuerCalls = 0
----------------------------------------------------------------------------
\* C25: once the guard has allowed a request on a protected route, the
\* request context holds the caller identity taken from the token and the
\* client identity (clientUuid, clientType) attached by the client check.
C25_ClientIdentityKept ==
    (Protected /\ Allowed) =>
        /\ user.id # Undefined /\ user.email # Undefined
        /\ user.clientUuid = extractClientUuid(req.clientHdr)
        /\ user.clientType = registry[extractClientUuid(req.clientHdr)].clientType
----------------------------------------------------------------------------
\* the statusCode columns of the rows of request id in the error partition
ErrorRowStatus(id) ==
    {csvError[i].statusCode : i \in {j \in 1..Len(csvError) : csvError[j].id = id}}

\* C26: when the handler of a request threw, the statusCode of the request's
\* log entry, in the index and in the error partition, is the status of the
\* response that was sent.
C26_LoggedStatusIsSentStatus ==
    (pc = "done" /\ handled /\ exc.kind # "none" /\ resp.sent) =>
        /\ \A i \in 1..Len(requestLogs) :
               requestLogs[i].id = ctxRequestId => requestLogs[i].statusCode = resp.status
        /\ \A c \in ErrorRowStatus(ctxRequestId) : c = resp.status
----------------------------------------------------------------------------
C28_NeverOverCapacity ==
    (pc = "concurrent" /\ svc.status.read) =>
        /\ svc.status.currentCount <= MaxStoredLogs
        /\ ~svc.status.needsCleanup
----------------------------------------------------------------------------
\* C29: right after logRequest the index holds the entry that was just
\* inserted, also when the insertion triggered the cleanup and other entries
\* have the same or a later timestamp.
C29_NewEntryKept ==
    (pc = "service" /\ svc.op = "logRequest") => HasEntry(svc.id)
----------------------------------------------------------------------------
====
